---- MODULE Spec2Model ----
(***************************************************************************)
(* HFRAT backend: role-guarded JSON API over three tables (users,          *)
(* facilities, resource_reports) with JWT identities and an in-process     *)
(* revocation set.                                                         *)
(*                                                                         *)
(* Python values are tagged records: None, IntV(n), StrV(s).  A Python     *)
(* string is a sequence of one-character strings, so that strip(),         *)
(* lower(), re.sub() and int() are computed character by character.        *)
(***************************************************************************)
EXTENDS Integers, Sequences, FiniteSets, TLC

VARIABLES
    users,            \* table users: set of rows
    facilities,       \* table facilities: set of rows
    reports,          \* table resource_reports: set of rows
    nextUserId,       \* users.id sequence
    nextFacilityId,   \* facilities.id sequence
    nextReportId,     \* resource_reports.id sequence
    revoked_tokens,   \* auth.py: revoked_tokens (set of jti)
    tokens,           \* access tokens issued so far (held by clients)
    now,              \* datetime.utcnow(), a logical clock
    resp,             \* the response of the request handled last
    inflight,         \* per worker: a request between its reads and its commit
    call              \* a call of a validator on its own: arguments and outcome

vars == <<users, facilities, reports, nextUserId, nextFacilityId, nextReportId,
          revoked_tokens, tokens, now, resp, inflight, call>>

dbvars == <<users, facilities, reports, nextUserId, nextFacilityId, nextReportId>>

-----------------------------------------------------------------------------
(* Bounds of the model *)

MaxUsers == 2
MaxFacilities == 2
MaxReports == 2
MaxTokens == 2
MaxClock == 1

-----------------------------------------------------------------------------
(* Python values *)

None == [t |-> "none"]
IntV(n) == [t |-> "int", v |-> n]
StrV(s) == [t |-> "str", v |-> s]
\* a float whose value is halves/2, and the two floats that are not numbers
FloatV(halves) == [t |-> "float", v |-> halves]
Infinity == [t |-> "inf"]
NaN == [t |-> "nan"]
ValueError == [t |-> "raise", v |-> "ValueError"]
OverflowError == [t |-> "raise", v |-> "OverflowError"]

\* Python truthiness of a value: None, 0 and "" are falsy
truthy(x) ==
    CASE x.t = "none" -> FALSE
      [] x.t = "int" -> x.v # 0
      [] x.t = "float" -> x.v # 0
      [] x.t = "str" -> x.v # <<>>
      [] x.t = "dict" -> DOMAIN x.v # {}
      [] x.t = "list" -> x.v # <<>>
      [] OTHER -> TRUE

\* x or y
py_or(x, y) == IF truthy(x) THEN x ELSE y

-----------------------------------------------------------------------------
(* Characters and strings *)

NUL == "<NUL>"
Whitespace == {" ", "\t", "\n"}
UpperSeq == <<"A","B","C","D","E","F","G","H","I","J","K","L","M",
              "N","O","P","Q","R","S","T","U","V","W","X","Y","Z">>
LowerSeq == <<"a","b","c","d","e","f","g","h","i","j","k","l","m",
              "n","o","p","q","r","s","t","u","v","w","x","y","z">>
DigitSeq == <<"0","1","2","3","4","5","6","7","8","9">>
UpperSet == {UpperSeq[i] : i \in 1..26}
LowerSet == {LowerSeq[i] : i \in 1..26}
DigitSet == {DigitSeq[i] : i \in 1..10}
Letters == UpperSet \cup LowerSet

lower_char(c) ==
    IF c \in UpperSet THEN LowerSeq[CHOOSE i \in 1..26 : UpperSeq[i] = c] ELSE c

\* str.lower()
lower(s) == [i \in 1..Len(s) |-> lower_char(s[i])]

RECURSIVE lstrip(_)
lstrip(s) == IF s # <<>> /\ Head(s) \in Whitespace THEN lstrip(Tail(s)) ELSE s

RECURSIVE rstrip(_)
rstrip(s) ==
    IF s # <<>> /\ s[Len(s)] \in Whitespace THEN rstrip(SubSeq(s, 1, Len(s) - 1)) ELSE s

\* str.strip()
strip(s) == rstrip(lstrip(s))

\* decimal digits of a natural number
RECURSIVE nat_digits(_)
nat_digits(n) ==
    IF n < 10 THEN <<DigitSeq[n + 1]>> ELSE Append(nat_digits(n \div 10), DigitSeq[(n % 10) + 1])

\* str(value)
py_str(x) ==
    CASE x.t = "str" -> x.v
      [] x.t = "int" -> IF x.v < 0 THEN <<"-">> \o nat_digits(0 - x.v) ELSE nat_digits(x.v)
      [] x.t = "float" ->
            LET m == IF x.v < 0 THEN 0 - x.v ELSE x.v
            IN  (IF x.v < 0 THEN <<"-">> ELSE <<>>) \o nat_digits(m \div 2)
                    \o <<".">> \o (IF m % 2 = 0 THEN <<"0">> ELSE <<"5">>)
      [] x.t = "inf" -> <<"i","n","f">>
      [] x.t = "nan" -> <<"n","a","n">>
      [] OTHER -> <<"N","o","n","e">>

digit_val(c) == (CHOOSE i \in 1..10 : DigitSeq[i] = c) - 1

RECURSIVE digits_value(_, _)
digits_value(s, acc) ==
    IF s = <<>> THEN acc ELSE digits_value(Tail(s), 10 * acc + digit_val(Head(s)))

\* int(value): an int is itself; a string is stripped and read as an optionally
\* signed run of decimal digits, and raises ValueError otherwise
py_int(x) ==
    CASE x.t = "int" -> x
      [] x.t = "str" ->
            LET b == strip(x.v)
                signed == b # <<>> /\ Head(b) \in {"+", "-"}
                body == IF signed THEN Tail(b) ELSE b
                mag == digits_value(body, 0)
            IN  IF body # <<>> /\ \A i \in 1..Len(body) : body[i] \in DigitSet
                THEN IntV(IF signed /\ Head(b) = "-" THEN 0 - mag ELSE mag)
                ELSE ValueError
      [] x.t = "float" -> IntV(IF x.v < 0 THEN 0 - ((0 - x.v) \div 2) ELSE x.v \div 2)
      [] x.t = "inf" -> OverflowError
      [] x.t = "nan" -> ValueError
      [] OTHER -> [t |-> "raise", v |-> "TypeError"]

-----------------------------------------------------------------------------
(* app/utils/validators.py *)

sanitize_string(value, max_length) ==
    IF value = None THEN <<>>
    ELSE LET stripped == strip(py_str(value))
             sanitized == SelectSeq(stripped, LAMBDA c : c # NUL)
         IN  IF Len(sanitized) > max_length THEN SubSeq(sanitized, 1, max_length)
             ELSE sanitized

DangerousChars == {"<", ">", "(", ")", "[", "]", "{", "}", "|", "\\"}

sanitize_email(email) ==
    IF ~truthy(email) THEN <<>>
    ELSE SelectSeq(lower(sanitize_string(email, 255)), LAMBDA c : c \notin DangerousChars)

LocalChars == Letters \cup DigitSet \cup {".", "_", "%", "+", "-"}
DomainChars == Letters \cup DigitSet \cup {".", "-"}

\* ^[a-zA-Z0-9._%+-]+@[a-zA-Z0-9.-]+\.[a-zA-Z]{2,}$
is_valid_email(email) ==
    /\ email # <<>>
    /\ \E i \in 2..Len(email) :
          /\ email[i] = "@"
          /\ \A k \in 1..(i - 1) : email[k] \in LocalChars
          /\ \E j \in (i + 2)..(Len(email) - 2) :
                /\ email[j] = "."
                /\ \A k \in (i + 1)..(j - 1) : email[k] \in DomainChars
                /\ \A k \in (j + 1)..Len(email) : email[k] \in Letters

sanitize_integer(value, min_val, max_val) ==
    IF value = None THEN None
    ELSE LET num == py_int(value)
         IN  IF num.t = "raise"
             THEN IF num.v \in {"TypeError", "ValueError"} THEN None ELSE num
             ELSE IF min_val # None /\ num.v < min_val.v THEN None
             ELSE IF max_val # None /\ num.v > max_val.v THEN None
             ELSE num

validate_user_payload(data, require_password) ==
    LET email == sanitize_email(data.email)
        e1 == IF email = <<>> THEN <<"Email is required.">>
              ELSE IF ~is_valid_email(email) THEN <<"Invalid email format.">>
              ELSE IF Len(email) > 255 THEN <<"Email is too long (max 255 characters).">>
              ELSE <<>>
        password == data.password
        e2 == IF require_password /\ ~truthy(password) THEN <<"Password is required.">>
              ELSE IF truthy(password)
                   THEN IF Len(password.v) < 8
                        THEN <<"Password must be at least 8 characters.">>
                        ELSE IF Len(password.v) > 128
                        THEN <<"Password is too long (max 128 characters).">>
                        ELSE <<>>
                   ELSE <<>>
    IN  e1 \o e2

report_field_errors(field, value) ==
    IF value = None THEN <<field \o " is required.">>
    ELSE IF sanitize_integer(value, IntV(0), IntV(10000)) = None
         THEN IF strip(py_str(value)) = <<>>
              THEN <<field \o " is required.">>
              ELSE <<field \o " must be a non-negative integer (max 10000).">>
         ELSE <<>>

\* validate_report_payload does not return: a sanitize_integer call in it raised
validate_report_payload_raises(data) ==
    \/ sanitize_integer(data.facility_id, IntV(1), None).t = "raise"
    \/ \E value \in {data.icu_beds_available, data.ventilators_available,
                      data.staff_on_duty} :
           sanitize_integer(value, IntV(0), IntV(10000)).t = "raise"

validate_report_payload(data) ==
    LET facility_id == sanitize_integer(data.facility_id, IntV(1), None)
        e1 == IF facility_id = None
              THEN IF data.facility_id = None THEN <<"facility_id is required.">>
                   ELSE <<"facility_id must be a positive integer.">>
              ELSE <<>>
    IN  e1 \o report_field_errors("icu_beds_available", data.icu_beds_available)
           \o report_field_errors("ventilators_available", data.ventilators_available)
           \o report_field_errors("staff_on_duty", data.staff_on_duty)

validate_facility_payload(data) ==
    LET name == sanitize_string(data.name, 150)
        e1 == IF name = <<>> THEN <<"Facility name is required.">>
              ELSE IF Len(name) < 2 THEN <<"Facility name must be at least 2 characters.">>
              ELSE <<>>
        e2 == IF truthy(data.country) /\ Len(sanitize_string(data.country, 120)) > 120
              THEN <<"Country name is too long (max 120 characters).">> ELSE <<>>
        e3 == IF truthy(data.city) /\ Len(sanitize_string(data.city, 120)) > 120
              THEN <<"City name is too long (max 120 characters).">> ELSE <<>>
    IN  e1 \o e2 \o e3

-----------------------------------------------------------------------------
(* Python dicts and JSON text *)

\* A dict is a function from key names to values; d.get(k) is None for a missing key
EmptyDict == [k \in {} |-> None]
DictV(d) == [t |-> "dict", v |-> d]
dict_get(d, k) == IF k \in DOMAIN d THEN d[k] ELSE None

\* JSON text is modelled as its sequence of lexemes: punctuation and literals
Punct(c) == [t |-> "punct", v |-> c]
Lit(x) == [t |-> "lit", v |-> x]
JSONDecodeError == [t |-> "raise", v |-> "JSONDecodeError"]

RECURSIVE dumps_members(_, _)
dumps_members(keys, d) ==
    IF keys = <<>> THEN <<>>
    ELSE <<Lit(StrV(Head(keys))), Punct(":"), Lit(d[Head(keys)])>>
         \o (IF Len(keys) > 1 THEN <<Punct(",")>> ELSE <<>>)
         \o dumps_members(Tail(keys), d)

\* json.dumps of a dict whose keys were inserted in the order `keys`
json_dumps(keys, d) == <<Punct("{")>> \o dumps_members(keys, d) \o <<Punct("}")>>

\* the members of an object, from lexeme i on: the dict read so far is acc
RECURSIVE loads_members(_, _, _)
loads_members(text, i, acc) ==
    IF i + 2 > Len(text) THEN JSONDecodeError
    ELSE IF ~(text[i].t = "lit" /\ text[i].v.t = "str" /\ text[i + 1] = Punct(":")
              /\ text[i + 2].t = "lit")
    THEN JSONDecodeError
    ELSE LET key == text[i].v.v
             d == [k \in DOMAIN acc \cup {key} |-> IF k = key THEN text[i + 2].v ELSE acc[k]]
         IN  IF i + 3 = Len(text) /\ text[i + 3] = Punct("}") THEN DictV(d)
             ELSE IF i + 3 < Len(text) /\ text[i + 3] = Punct(",")
                  THEN loads_members(text, i + 4, d)
                  ELSE JSONDecodeError

ListV(l) == [t |-> "list", v |-> l]

\* the elements of an array, from lexeme i on: the list read so far is acc
RECURSIVE loads_elements(_, _, _)
loads_elements(text, i, acc) ==
    IF i + 1 > Len(text) \/ text[i].t # "lit" THEN JSONDecodeError
    ELSE IF i + 1 = Len(text) /\ text[i + 1] = Punct("]") THEN ListV(Append(acc, text[i].v))
    ELSE IF text[i + 1] = Punct(",") THEN loads_elements(text, i + 2, Append(acc, text[i].v))
    ELSE JSONDecodeError

\* json.loads: an object, an array of literals, a scalar literal, or
\* JSONDecodeError
json_loads(text) ==
    IF text = <<>> THEN JSONDecodeError
    ELSE IF Len(text) = 1 /\ text[1].t = "lit" THEN text[1].v
    ELSE IF text = <<Punct("{"), Punct("}")>> THEN DictV(EmptyDict)
    ELSE IF text[1] = Punct("{") THEN loads_members(text, 2, EmptyDict)
    ELSE IF text = <<Punct("["), Punct("]")>> THEN ListV(<<>>)
    ELSE IF text[1] = Punct("[") THEN loads_elements(text, 2, <<>>)
    ELSE JSONDecodeError

-----------------------------------------------------------------------------
(* app/models *)

s_admin == <<"a","d","m","i","n">>
s_reporter == <<"r","e","p","o","r","t","e","r">>
s_monitor == <<"m","o","n","i","t","o","r">>

\* class UserRole(str, Enum): the values
UserRoleValues == {s_admin, s_reporter, s_monitor}

\* werkzeug generate_password_hash / check_password_hash: an opaque hash that a
\* raw password matches iff it is the one that was hashed
generate_password_hash(raw_password) == [hash_of |-> raw_password]
check_password(user, raw_password) == user.password_hash.hash_of = raw_password

UserRow(id, email, password, role, facility_id) ==
    [id |-> id, email |-> email, password_hash |-> generate_password_hash(password),
     role |-> role, facility_id |-> facility_id]

FacilityRow(id, name, country, city) ==
    [id |-> id, name |-> name, country |-> country, city |-> city]

ReportRow(id, facility_id, icu, vent, staff, ts) ==
    [id |-> id, facility_id |-> facility_id, icu_beds_available |-> icu,
     ventilators_available |-> vent, staff_on_duty |-> staff, updated_at |-> ts]

\* Facility.query.get(facility_id)
facility_exists(facility_id) == \E f \in facilities : f.id = facility_id.v

\* users.email is unique; facilities.name is unique
email_taken(email) == \E u \in users : u.email = email
name_taken(name) == \E f \in facilities : f.name = name

-----------------------------------------------------------------------------
(* app/extensions.py and flask_jwt_extended *)

IdentityKeys == <<"id", "role", "facility_id">>

\* @jwt.user_identity_loader: a dict becomes its JSON text
user_identity_lookup(user_data) ==
    IF user_data.t = "dict" THEN StrV(json_dumps(IdentityKeys, user_data.v))
    ELSE StrV(py_str(user_data))

\* a variant of user_identity that leaves the facility out of the token
user_identity_without_facility(user) ==
    DictV([id |-> IntV(user.id), role |-> StrV(user.role), facility_id |-> None])

user_identity(user) ==
    DictV([id |-> IntV(user.id), role |-> StrV(user.role), facility_id |-> user.facility_id])

\* create_access_token(identity=...): a signed token with a fresh jti
create_access_token(identity, jti) == [jti |-> jti, sub |-> user_identity_lookup(identity)]

NoToken == [jti |-> 0, sub |-> None]

\* a variant of is_token_revoked with an empty blocklist
token_never_revoked(token) == FALSE

\* auth.py: @jwt.token_in_blocklist_loader
is_token_revoked(token) == token.jti \in revoked_tokens

\* verify_jwt_in_request(): the 401 it answers with, or "ok"
verify_jwt_in_request(token) ==
    IF token \notin tokens THEN "Missing Authorization Header"
    ELSE IF is_token_revoked(token) THEN "Token has been revoked"
    ELSE "ok"

-----------------------------------------------------------------------------
(* Responses.  A handler is an operator from its request (and the state it    *)
(* reads) to its response and the state it leaves: status, JSON body (the key *)
(* and its messages, or data), whether the wrapped operation ran, and every   *)
(* table, sequence and set after the request.                                 *)

Reply(status, key, msgs) ==
    [status |-> status, key |-> key, msgs |-> msgs, ran |-> TRUE, data |-> None,
     users |-> users, facilities |-> facilities, reports |-> reports,
     nextUserId |-> nextUserId, nextFacilityId |-> nextFacilityId,
     nextReportId |-> nextReportId,
     revoked_tokens |-> revoked_tokens, tokens |-> tokens]

\* a response produced before the wrapped operation is invoked
Denied(status, key, msgs) == [Reply(status, key, msgs) EXCEPT !.ran = FALSE]

\* app/__init__.py: the handlers of SQLAlchemyError and of Exception
DatabaseError == Reply(500, "error", <<"Database error occurred. Please try again.">>)
UnexpectedError ==
    Denied(500, "error", <<"An unexpected error occurred. Please contact support.">>)
\* the same answer to an exception raised in the body of a handler
HandlerRaised == [UnexpectedError EXCEPT !.ran = TRUE]

-----------------------------------------------------------------------------
(* app/utils/decorators.py *)

\* _get_identity_dict (and reporter.py's copy, _parse_identity)
get_identity_dict(token) ==
    LET identity == token.sub
    IN  IF identity.t = "str"
        THEN LET parsed == json_loads(identity.v)
             IN  IF parsed.t = "raise" THEN DictV(EmptyDict) ELSE parsed
        ELSE IF truthy(identity) THEN identity ELSE DictV(EmptyDict)

\* a variant of MonitorRoles that leaves the admin out
MonitorRolesOnly == {StrV(s_monitor)}

AdminRoles == {StrV(s_admin)}
ReporterRoles == {StrV(s_reporter), StrV(s_admin)}
MonitorRoles == {StrV(s_monitor), StrV(s_admin)}

\* is the role of the identity one of the allowed ones
role_allowed(identity, allowed) == dict_get(identity.v, "role") \in allowed

\* a variant of role_guard that puts the token it refuses with 403 on the blocklist
role_guard_revoking(allowed, token, fn_result) ==
    LET jwt_check == verify_jwt_in_request(token)
    IN  IF jwt_check # "ok" THEN Denied(401, "msg", << jwt_check >>)
        ELSE LET identity == get_identity_dict(token)
             IN  IF identity.t # "dict" THEN UnexpectedError
                 ELSE IF ~role_allowed(identity, allowed)
                 THEN [Denied(403, "error", <<"Forbidden">>) EXCEPT
                          !.revoked_tokens = revoked_tokens \cup {token.jti}]
                 ELSE fn_result

\* _role_guard(allowed)(fn): fn_result is what the wrapped operation answers
role_guard(allowed, token, fn_result) ==
    LET jwt_check == verify_jwt_in_request(token)
    IN  IF jwt_check # "ok" THEN Denied(401, "msg", << jwt_check >>)
        ELSE LET identity == get_identity_dict(token)
             IN  IF identity.t # "dict" THEN UnexpectedError
                 ELSE IF ~role_allowed(identity, allowed)
                 THEN Denied(403, "error", <<"Forbidden">>)
                 ELSE fn_result

\* @jwt_required()
jwt_required(token, fn_result) ==
    LET jwt_check == verify_jwt_in_request(token)
    IN  IF jwt_check # "ok" THEN Denied(401, "msg", << jwt_check >>) ELSE fn_result

-----------------------------------------------------------------------------
(* app/routes/auth.py *)

NextJti == Cardinality(tokens) + 1

\* a handler that has done its reads and is about to commit `row`
Pending(op, row) == [pending |-> TRUE, op |-> op, row |-> row]
Done(reply) == [pending |-> FALSE, reply |-> reply]

\* register, up to db.session.add(user)
register_prepare(data) ==
    LET errors == validate_user_payload(data, TRUE)
        email == sanitize_email(data.email)
        password == data.password
        role_value == lower(sanitize_string(py_or(data.role, StrV(s_reporter)), 50))
        facility_id == sanitize_integer(data.facility_id, IntV(1), None)
    IN  IF errors # <<>> THEN Done(Reply(400, "errors", errors))
        ELSE IF facility_id.t = "raise" THEN Done(HandlerRaised)
        ELSE IF data.facility_id # None /\ facility_id = None
        THEN Done(Reply(400, "error", <<"facility_id must be a positive integer.">>))
        ELSE IF role_value \notin UserRoleValues
        THEN Done(Reply(400, "error", <<"Invalid role.">>))
        ELSE IF role_value # s_reporter /\ facility_id # None
        THEN Done(Reply(400, "error", <<"facility_id allowed only for reporter role.">>))
        ELSE IF facility_id # None /\ ~facility_exists(facility_id)
        THEN Done(Reply(404, "error", <<"Facility not found.">>))
        ELSE Pending("register", [email |-> email, password |-> password.v,
                                  role |-> role_value, facility_id |-> facility_id])

\* a variant of user_integrity_error for a users table without the unique index
user_integrity_unchecked(row) == FALSE

\* users.email is unique (models/user.py): committing a second row with a stored
\* email raises IntegrityError
user_integrity_error(row) == email_taken(row.email)

\* register, from db.session.commit() on
register_commit(row) ==
    IF user_integrity_error(row)
    THEN Reply(409, "error", <<"Email already registered.">>)
    ELSE LET user == UserRow(nextUserId, row.email, row.password, row.role, row.facility_id)
             token == create_access_token(user_identity(user), NextJti)
         IN  [Reply(201, "ok", <<>>) EXCEPT
                 !.users = users \cup {user},
                 !.nextUserId = nextUserId + 1,
                 !.tokens = tokens \cup {token},
                 !.data = token]

register(data) ==
    LET p == register_prepare(data)
    IN  IF p.pending THEN register_commit(p.row) ELSE p.reply

\* User.query.filter_by(email=email).first(): emails are unique
user_by_email(email) == {u \in users : u.email = email}

\* a variant of login that tells a wrong password from an unknown e-mail
login_revealing(data) ==
    LET errors == validate_user_payload(data, TRUE)
        email == sanitize_email(data.email)
        password == data.password
        found == user_by_email(email)
    IN  IF errors # <<>> THEN Reply(400, "errors", errors)
        ELSE IF found = {} THEN Reply(401, "error", <<"Unknown e-mail.">>)
        ELSE IF \A u \in found : ~check_password(u, password.v)
        THEN Reply(401, "error", <<"Invalid credentials.">>)
        ELSE LET user == CHOOSE u \in found : TRUE
                 token == create_access_token(user_identity(user), NextJti)
             IN  [Reply(200, "ok", <<>>) EXCEPT
                     !.tokens = tokens \cup {token},
                     !.data = token]

login(data) ==
    LET errors == validate_user_payload(data, TRUE)
        email == sanitize_email(data.email)
        password == data.password
        found == user_by_email(email)
    IN  IF errors # <<>> THEN Reply(400, "errors", errors)
        ELSE IF found = {} \/ \A u \in found : ~check_password(u, password.v)
        THEN Reply(401, "error", <<"Invalid credentials.">>)
        ELSE LET user == CHOOSE u \in found : TRUE
                 token == create_access_token(user_identity(user), NextJti)
             IN  [Reply(200, "ok", <<>>) EXCEPT
                     !.tokens = tokens \cup {token},
                     !.data = token]

\* a variant of logout that ends every session of the caller
logout_everywhere(token) ==
    jwt_required(token,
        [Reply(200, "message", <<"Logged out">>) EXCEPT
            !.revoked_tokens = revoked_tokens \cup {t.jti : t \in {t \in tokens : t.sub = token.sub}}])

logout(token) ==
    jwt_required(token,
        [Reply(200, "message", <<"Logged out">>) EXCEPT
            !.revoked_tokens = IF token.jti # 0 THEN revoked_tokens \cup {token.jti}
                               ELSE revoked_tokens])

-----------------------------------------------------------------------------
(* app/routes/admin.py *)

list_users(token) ==
    role_guard(AdminRoles, token, [Reply(200, "users", <<>>) EXCEPT !.data = users])

str_or_none(s) == IF s = <<>> THEN None ELSE StrV(s)

\* create_facility, up to db.session.add(facility)
create_facility_prepare(data) ==
    LET errors == validate_facility_payload(data)
        name == sanitize_string(data.name, 150)
        country == str_or_none(sanitize_string(data.country, 120))
        city == str_or_none(sanitize_string(data.city, 120))
    IN  IF errors # <<>> THEN Done(Reply(400, "errors", errors))
        ELSE IF name_taken(name)
        THEN Done(Reply(409, "error", <<"Facility already exists.">>))
        ELSE Pending("create_facility", [name |-> name, country |-> country, city |-> city])

\* facilities.name is unique (models/facility.py): committing a second row with a
\* stored name raises IntegrityError
facility_integrity_error(row) == name_taken(row.name)

\* create_facility, from db.session.commit() on: the IntegrityError is not caught
\* in the route and reaches the SQLAlchemyError handler
create_facility_commit(row) ==
    IF facility_integrity_error(row) THEN DatabaseError
    ELSE LET facility == FacilityRow(nextFacilityId, row.name, row.country, row.city)
         IN  [Reply(201, "ok", <<>>) EXCEPT
                 !.facilities = facilities \cup {facility},
                 !.nextFacilityId = nextFacilityId + 1,
                 !.data = facility]

create_facility(token, data) ==
    role_guard(AdminRoles, token,
        LET p == create_facility_prepare(data)
        IN  IF p.pending THEN create_facility_commit(p.row) ELSE p.reply)

list_facilities(token) ==
    role_guard(AdminRoles, token, [Reply(200, "facilities", <<>>) EXCEPT !.data = facilities])

\* create_user, up to db.session.add(new_user)
create_user_prepare(data) ==
    LET email == sanitize_email(data.email)
        temp_password == py_or(data.password, data.temporary_password)
        role_value == lower(sanitize_string(data.role, 50))
        facility_id == sanitize_integer(data.facility_id, IntV(1), None)
    IN  IF facility_id.t = "raise" THEN Done(HandlerRaised)
        ELSE IF email = <<>> THEN Done(Reply(400, "error", <<"email is required.">>))
        ELSE IF ~truthy(temp_password)
        THEN Done(Reply(400, "error", <<"temporary password is required.">>))
        ELSE IF role_value \notin UserRoleValues
        THEN Done(Reply(400, "error", <<"Invalid role.">>))
        ELSE IF role_value = s_reporter /\ facility_id = None
        THEN Done(Reply(400, "error", <<"facility_id is required for reporter.">>))
        ELSE IF role_value = s_reporter /\ ~facility_exists(facility_id)
        THEN Done(Reply(404, "error", <<"Facility not found.">>))
        ELSE Pending("create_user",
                     [email |-> email, password |-> temp_password.v, role |-> role_value,
                      facility_id |-> IF role_value = s_reporter THEN facility_id ELSE None])

\* create_user, from db.session.commit() on
create_user_commit(row) ==
    IF user_integrity_error(row)
    THEN Reply(409, "error", <<"Email already registered.">>)
    ELSE LET user == UserRow(nextUserId, row.email, row.password, row.role, row.facility_id)
         IN  [Reply(201, "ok", <<>>) EXCEPT
                 !.users = users \cup {user},
                 !.nextUserId = nextUserId + 1,
                 !.data = user]

create_user(token, data) ==
    role_guard(AdminRoles, token,
        LET p == create_user_prepare(data)
        IN  IF p.pending THEN create_user_commit(p.row) ELSE p.reply)

\* db.session.delete(facility) with Facility.users and Facility.reports declared
\* without a delete cascade: the unit of work sets the facility_id of every child
\* row to NULL before deleting the parent.  users.facility_id is nullable;
\* resource_reports.facility_id is not, so a facility with reports cannot be
\* flushed: IntegrityError, rollback, 500.
\* a variant of delete_facility whose flush leaves the users of the facility alone
delete_facility_leaving_users(token, facility_id) ==
    role_guard(AdminRoles, token,
        IF ~\E f \in facilities : f.id = facility_id
        THEN Reply(404, "error", <<"Facility not found.">>)
        ELSE IF \E r \in reports : r.facility_id = facility_id
        THEN DatabaseError
        ELSE [Reply(200, "message", <<"Facility deleted.">>) EXCEPT
                 !.facilities = {f \in facilities : f.id # facility_id}])

delete_facility(token, facility_id) ==
    role_guard(AdminRoles, token,
        IF ~\E f \in facilities : f.id = facility_id
        THEN Reply(404, "error", <<"Facility not found.">>)
        ELSE IF \E r \in reports : r.facility_id = facility_id
        THEN DatabaseError
        ELSE [Reply(200, "message", <<"Facility deleted.">>) EXCEPT
                 !.facilities = {f \in facilities : f.id # facility_id},
                 !.users = {IF u.facility_id = IntV(facility_id)
                            THEN [u EXCEPT !.facility_id = None] ELSE u : u \in users}])

-----------------------------------------------------------------------------
(* app/routes/reporter.py *)

\* a variant of reports_of that never finds the stored row
reports_of_none(facility_id) == {}

\* ResourceReport.query.filter_by(facility_id=...).first(): no ORDER BY, so any
\* row of the facility may be the one returned
reports_of(facility_id) == {r \in reports : r.facility_id = facility_id}

\* a variant of reporter_facility_mismatch that lets a reporter write to any facility
reporter_facility_unchecked(role, reporter_facility_id, facility_id) == FALSE

\* create_report: `role == "reporter" and reporter_facility_id != facility_id`
reporter_facility_mismatch(role, reporter_facility_id, facility_id) ==
    role = StrV(s_reporter) /\ reporter_facility_id # facility_id

\* create_report, up to db.session.commit(): every outcome the query allows
create_report_prepare(token, data) ==
    LET identity == get_identity_dict(token)
        role == dict_get(identity.v, "role")
        reporter_facility_id == dict_get(identity.v, "facility_id")
        errors == validate_report_payload(data)
        facility_id == sanitize_integer(data.facility_id, IntV(1), None)
        icu_beds == sanitize_integer(data.icu_beds_available, IntV(0), IntV(10000))
        ventilators == sanitize_integer(data.ventilators_available, IntV(0), IntV(10000))
        staff == sanitize_integer(data.staff_on_duty, IntV(0), IntV(10000))
        payload(report_id, loaded) ==
            [report_id |-> report_id, facility_id |-> facility_id.v,
             icu_beds_available |-> icu_beds.v, ventilators_available |-> ventilators.v,
             staff_on_duty |-> staff.v,
             loaded |-> [icu_beds_available |-> loaded.icu_beds_available,
                         ventilators_available |-> loaded.ventilators_available,
                         staff_on_duty |-> loaded.staff_on_duty]]
    IN  IF validate_report_payload_raises(data) THEN {Done(HandlerRaised)}
        ELSE IF errors # <<>> THEN {Done(Reply(400, "errors", errors))}
        ELSE IF facility_id = None
        THEN {Done(Reply(400, "error", <<"Invalid facility_id.">>))}
        ELSE IF role = StrV(s_reporter) /\ ~truthy(reporter_facility_id)
        THEN {Done(Reply(403, "error", <<"Reporter is not linked to a facility.">>))}
        ELSE IF reporter_facility_mismatch(role, reporter_facility_id, facility_id)
        THEN {Done(Reply(403, "error", <<"Reporter can only submit for their facility.">>))}
        ELSE IF ~facility_exists(facility_id)
        THEN {Done(Reply(404, "error", <<"Facility not found.">>))}
        ELSE IF reports_of(facility_id.v) = {}
        THEN {Pending("insert_report",
                      payload(0, [icu_beds_available |-> icu_beds.v,
                                  ventilators_available |-> ventilators.v,
                                  staff_on_duty |-> staff.v]))}
        ELSE {Pending("update_report", payload(r.id, r)) : r \in reports_of(facility_id.v)}

\* setattr on the loaded row: the UPDATE sets the columns whose value differs
\* from the one the session loaded, and is emitted (with onupdate=datetime.utcnow)
\* only when there is such a column; r is the row as the table holds it now
update_report(r, row) ==
    IF row.loaded = [icu_beds_available |-> row.icu_beds_available,
                     ventilators_available |-> row.ventilators_available,
                     staff_on_duty |-> row.staff_on_duty]
    THEN r
    ELSE [r EXCEPT
             !.icu_beds_available =
                 IF row.icu_beds_available # row.loaded.icu_beds_available
                 THEN row.icu_beds_available ELSE @,
             !.ventilators_available =
                 IF row.ventilators_available # row.loaded.ventilators_available
                 THEN row.ventilators_available ELSE @,
             !.staff_on_duty =
                 IF row.staff_on_duty # row.loaded.staff_on_duty
                 THEN row.staff_on_duty ELSE @,
             !.updated_at = now]

\* create_report, from db.session.commit() on
create_report_commit(row) ==
    IF row.report_id = 0
    THEN LET report == ReportRow(nextReportId, row.facility_id, row.icu_beds_available,
                                 row.ventilators_available, row.staff_on_duty, now)
         IN  [Reply(201, "ok", <<>>) EXCEPT
                 !.reports = reports \cup {report},
                 !.nextReportId = nextReportId + 1,
                 !.data = report]
    ELSE LET old == CHOOSE r \in reports : r.id = row.report_id
             report == update_report(old, row)
         IN  [Reply(201, "ok", <<>>) EXCEPT
                 !.reports = (reports \ {old}) \cup {report},
                 !.data = report]

\* every answer create_report can give
create_report(token, data) ==
    LET guarded == role_guard(ReporterRoles, token, Reply(0, "ok", <<>>))
    IN  IF guarded.status # 0 THEN {guarded}
        ELSE {IF p.pending THEN create_report_commit(p.row) ELSE p.reply :
                  p \in create_report_prepare(token, data)}

\* request.args.get(name, type=int): None when absent or not an integer
args_get_int(raw) ==
    IF raw = None THEN None
    ELSE LET n == py_int(raw) IN IF n.t = "raise" THEN None ELSE n

\* order_by(updated_at.desc()).first(): a row with the greatest updated_at
latest_reports_of(facility_id) ==
    {r \in reports_of(facility_id) :
        \A q \in reports_of(facility_id) : q.updated_at <= r.updated_at}

get_my_latest_report_body(token, arg_facility_id) ==
    LET identity == get_identity_dict(token)
        role == dict_get(identity.v, "role")
        facility_id == IF role = StrV(s_reporter) THEN dict_get(identity.v, "facility_id")
                       ELSE args_get_int(arg_facility_id)
    IN  IF role = StrV(s_reporter) /\ ~truthy(facility_id)
        THEN {Reply(403, "error", <<"Reporter is not linked to a facility.">>)}
        ELSE IF ~truthy(facility_id)
        THEN {Reply(400, "error", <<"facility_id is required for this request.">>)}
        ELSE IF latest_reports_of(facility_id.v) = {}
        THEN {Reply(404, "error", <<"No report found.">>)}
        ELSE {[Reply(200, "report", <<>>) EXCEPT !.data = r] :
                 r \in latest_reports_of(facility_id.v)}

\* every answer get_my_latest_report can give
get_my_latest_report(token, arg_facility_id) ==
    LET guarded == role_guard(ReporterRoles, token, Reply(0, "ok", <<>>))
    IN  IF guarded.status # 0 THEN {guarded}
        ELSE get_my_latest_report_body(token, arg_facility_id)

-----------------------------------------------------------------------------
(* app/routes/monitor.py *)

NoReport == ReportRow(0, 0, 0, 0, 0, 0)

\* a summary entry that shows the ventilators where the staff belongs
summary_entry_staff_mixed_up(fac, report) ==
    [facility_id |-> fac.id, facility_name |-> fac.name,
     country |-> fac.country, city |-> fac.city,
     icu_beds_available |-> IF report = NoReport THEN None ELSE IntV(report.icu_beds_available),
     ventilators_available |->
         IF report = NoReport THEN None ELSE IntV(report.ventilators_available),
     staff_on_duty |-> IF report = NoReport THEN None ELSE IntV(report.ventilators_available),
     last_update |-> IF report = NoReport THEN None ELSE IntV(report.updated_at),
     critical |-> report # NoReport /\ report.icu_beds_available = 0]

\* a summary entry whose flag looks at the count alone, not at whether a
\* report exists
summary_entry_any_zero(fac, report) ==
    [facility_id |-> fac.id, facility_name |-> fac.name,
     country |-> fac.country, city |-> fac.city,
     icu_beds_available |-> IF report = NoReport THEN None ELSE IntV(report.icu_beds_available),
     ventilators_available |->
         IF report = NoReport THEN None ELSE IntV(report.ventilators_available),
     staff_on_duty |-> IF report = NoReport THEN None ELSE IntV(report.staff_on_duty),
     last_update |-> IF report = NoReport THEN None ELSE IntV(report.updated_at),
     critical |-> report.icu_beds_available = 0]

\* one summary entry; report is NoReport when latest_by_facility has none
summary_entry(fac, report) ==
    [facility_id |-> fac.id, facility_name |-> fac.name,
     country |-> fac.country, city |-> fac.city,
     icu_beds_available |-> IF report = NoReport THEN None ELSE IntV(report.icu_beds_available),
     ventilators_available |->
         IF report = NoReport THEN None ELSE IntV(report.ventilators_available),
     staff_on_duty |-> IF report = NoReport THEN None ELSE IntV(report.staff_on_duty),
     last_update |-> IF report = NoReport THEN None ELSE IntV(report.updated_at),
     critical |-> report # NoReport /\ report.icu_beds_available = 0]

\* latest_by_facility = {r.facility_id: r for r in latest_reports}: of several rows
\* of a facility with the same greatest updated_at, any may be the one kept
latest_by_facility_choices ==
    [{f.id : f \in facilities} ->
        {r \in reports : \A q \in reports_of(r.facility_id) : q.updated_at <= r.updated_at}
        \cup {NoReport}]

dashboard_summary_body ==
    {[Reply(200, "facilities", <<>>) EXCEPT
         !.data = {summary_entry(fac, pick[fac.id]) : fac \in facilities}] :
     pick \in {c \in latest_by_facility_choices :
                  \A fac \in facilities :
                      IF latest_reports_of(fac.id) = {} THEN c[fac.id] = NoReport
                      ELSE c[fac.id] \in latest_reports_of(fac.id)}}

\* every answer dashboard_summary can give
dashboard_summary(token) ==
    LET guarded == role_guard(MonitorRoles, token, Reply(0, "ok", <<>>))
    IN  IF guarded.status # 0 THEN {guarded} ELSE dashboard_summary_body

DefaultDays == 7

dashboard_history(token, arg_facility_id, arg_days) ==
    role_guard(MonitorRoles, token,
        LET facility_id == args_get_int(arg_facility_id)
            days == IF args_get_int(arg_days) = None THEN IntV(DefaultDays)
                    ELSE args_get_int(arg_days)
        IN  IF ~truthy(facility_id)
            THEN Reply(400, "error", <<"facility_id is required.">>)
            ELSE IF days.v <= 0
            THEN Reply(400, "error", <<"days must be a positive integer.">>)
            ELSE IF ~facility_exists(facility_id)
            THEN Reply(404, "error", <<"Facility not found.">>)
            ELSE [Reply(200, "reports", <<>>) EXCEPT
                     !.data = {r \in reports_of(facility_id.v) : r.updated_at >= now - days.v}])

-----------------------------------------------------------------------------
(* The state after create_app(): empty tables and the default admin user *)

e_admin == <<"a","d","m","i","n","@","e","x","a","m","p","l","e",".","c","o","m">>
pw_admin == <<"A","d","m","i","n","@","1","2","3">>

NoResponse == [op |-> "none", jti |-> 0, status |-> 0]

Workers == {1, 2}
Idle == [pc |-> "idle"]

NoCall == [fn |-> "none"]

\* the application as create_app leaves it
Started ==
    /\ users = {UserRow(1, e_admin, pw_admin, s_admin, None)}
    /\ facilities = {}
    /\ reports = {}
    /\ nextUserId = 2
    /\ nextFacilityId = 1
    /\ nextReportId = 1
    /\ revoked_tokens = {}
    /\ tokens = {}
    /\ now = 0
    /\ resp = NoResponse
    /\ inflight = [w \in Workers |-> Idle]

Init == Started /\ call = NoCall

-----------------------------------------------------------------------------
(* Requests: the inputs the environment may send *)

e_lower == <<"a","@","b",".","i","o">>
e_mixed == <<" ","A","@","b",".","i","o">>
e_bad == <<"a","b">>
pw_good == <<"l","o","n","g","e","n","o","u","g","h","1">>
pw_other == <<"w","r","o","n","g","p","a","s","s","9">>
pw_short == <<"s","h","o","r","t">>
s_Admin == <<"A","d","m","i","n">>
s_nurse == <<"n","u","r","s","e">>
n_alpha == <<"A","l","p","h","a">>
n_alpha_padded == <<" ","A","l","p","h","a"," ">>
n_beta == <<"B","e","t","a">>
n_short == <<"A">>
c_kenya == <<"K","e","n","y","a">>

RoleInputs == {None, StrV(s_reporter), StrV(s_Admin), StrV(s_monitor), StrV(s_nurse)}
FacilityIdInputs == {None, IntV(0), IntV(1), StrV(<<"2">>), StrV(<<"x">>)}

RegisterPayload(email, password, role, facility_id) ==
    [email |-> email, password |-> password, role |-> role, facility_id |-> facility_id]

RegisterPayloads ==
    {RegisterPayload(StrV(e_lower), StrV(pw_good), r, f) :
        r \in RoleInputs, f \in {None, IntV(1)}}
    \cup
    {RegisterPayload(StrV(e_lower), StrV(pw_good), r, f) :
        r \in {None, StrV(s_reporter), StrV(s_Admin)},
        f \in {IntV(0), StrV(<<"2">>), StrV(<<"x">>)}}
    \cup
    {RegisterPayload(e, StrV(pw_good), None, None) :
        e \in {StrV(e_mixed), StrV(e_admin), StrV(e_bad), None}}
    \cup
    {RegisterPayload(StrV(e_lower), p, None, None) : p \in {StrV(pw_short), None}}

LoginPayloads ==
    {[email |-> e, password |-> p] :
        e \in {StrV(e_lower), StrV(e_admin)},
        p \in {StrV(pw_good), StrV(pw_admin), StrV(pw_other), StrV(pw_short), None}}
    \cup
    {[email |-> e, password |-> StrV(pw_good)] : e \in {StrV(e_mixed), StrV(e_bad), None}}

FacilityPayloads ==
    {[name |-> StrV(n_alpha), country |-> StrV(c_kenya), city |-> None],
     [name |-> StrV(n_alpha_padded), country |-> StrV(c_kenya), city |-> None],
     [name |-> StrV(n_beta), country |-> None, city |-> None],
     [name |-> StrV(n_short), country |-> None, city |-> None],
     [name |-> None, country |-> None, city |-> None]}

UserPayload(email, password, temporary_password, role, facility_id) ==
    [email |-> email, password |-> password, temporary_password |-> temporary_password,
     role |-> role, facility_id |-> facility_id]

UserPayloads ==
    {UserPayload(StrV(e_lower), StrV(pw_good), None, StrV(s_reporter), IntV(1)),
     UserPayload(StrV(e_lower), StrV(pw_good), None, StrV(s_reporter), IntV(2)),
     UserPayload(StrV(e_lower), StrV(pw_good), None, StrV(s_reporter), None),
     UserPayload(StrV(e_mixed), None, StrV(pw_short), StrV(s_monitor), IntV(1)),
     UserPayload(StrV(e_bad), StrV(pw_good), None, StrV(s_Admin), None),
     UserPayload(StrV(e_admin), StrV(pw_good), None, StrV(s_Admin), None),
     UserPayload(None, StrV(pw_good), None, StrV(s_Admin), None),
     UserPayload(StrV(e_lower), None, None, StrV(s_Admin), None),
     UserPayload(StrV(e_lower), StrV(pw_good), None, StrV(s_nurse), None),
     UserPayload(StrV(e_lower), StrV(pw_good), None, None, None)}

ReportPayload(facility_id, icu, vent, staff) ==
    [facility_id |-> facility_id, icu_beds_available |-> icu,
     ventilators_available |-> vent, staff_on_duty |-> staff]

ReportPayloads ==
    {ReportPayload(f, c[1], c[2], c[3]) :
        f \in FacilityIdInputs \cup {IntV(2)},
        c \in {<<IntV(0), IntV(2), IntV(10)>>, <<StrV(<<"5">>), IntV(5), IntV(5)>>}}
    \cup
    {ReportPayload(IntV(1), c[1], c[2], c[3]) :
        c \in {<<None, IntV(2), IntV(10)>>, <<IntV(0 - 1), IntV(2), IntV(10)>>,
               <<IntV(0), IntV(10001), IntV(10)>>, <<IntV(0), IntV(2), StrV(<<"x">>)>>,
               <<IntV(0), IntV(2), StrV(<<" ">>)>>, <<FloatV(0 - 1), IntV(2), IntV(10)>>,
               <<IntV(0), IntV(2), Infinity>>}}

QueryIdInputs == {None, StrV(<<"1">>), StrV(<<"2">>), StrV(<<"x">>)}
QueryDaysInputs == {None, StrV(<<"0">>)}
PathIds == 1..(MaxFacilities + 1)

\* the token a request presents: one that was issued, or none
Presented == tokens \cup {NoToken}

\* does the guard of a route let the bearer of the token through
admits(allowed, token) == role_guard(allowed, token, Reply(200, "ok", <<>>)).ran

\* the payloads worth sending with a token: a request the guard rejects is
\* answered before its payload is read, so one payload stands for all
Sent(allowed, token, payloads) ==
    IF admits(allowed, token) THEN payloads ELSE {CHOOSE data \in payloads : TRUE}

-----------------------------------------------------------------------------
(* Requests handled one at a time: each action is one whole request *)

WithinBounds(r) ==
    /\ r.nextUserId <= MaxUsers + 1
    /\ r.nextFacilityId <= MaxFacilities + 1
    /\ r.nextReportId <= MaxReports + 1
    /\ Cardinality(r.tokens) <= MaxTokens

Commit(r) ==
    /\ WithinBounds(r)
    /\ users' = r.users
    /\ facilities' = r.facilities
    /\ reports' = r.reports
    /\ nextUserId' = r.nextUserId
    /\ nextFacilityId' = r.nextFacilityId
    /\ nextReportId' = r.nextReportId
    /\ revoked_tokens' = r.revoked_tokens
    /\ tokens' = r.tokens

Respond(op, token, r) ==
    /\ Commit(r)
    /\ resp' = [op |-> op, jti |-> token.jti, status |-> r.status]
    /\ UNCHANGED <<now, inflight, call>>

RegisterOf(payloads) ==
    \E data \in payloads : Respond("register", NoToken, register(data))

LoginOf(payloads) ==
    \E data \in payloads : Respond("login", NoToken, login(data))

Logout == \E token \in Presented : Respond("logout", token, logout(token))

ListUsers == \E token \in Presented : Respond("list_users", token, list_users(token))

CreateFacilityOf(payloads) ==
    \E token \in Presented :
        \E data \in Sent(AdminRoles, token, payloads) :
            Respond("create_facility", token, create_facility(token, data))

ListFacilities ==
    \E token \in Presented : Respond("list_facilities", token, list_facilities(token))

CreateUserOf(payloads) ==
    \E token \in Presented :
        \E data \in Sent(AdminRoles, token, payloads) :
            Respond("create_user", token, create_user(token, data))

DeleteFacilityOf(ids) ==
    \E token \in Presented :
        \E facility_id \in Sent(AdminRoles, token, ids) :
            Respond("delete_facility", token, delete_facility(token, facility_id))

CreateReportOf(payloads) ==
    \E token \in Presented :
        \E data \in Sent(ReporterRoles, token, payloads) :
            \E r \in create_report(token, data) : Respond("create_report", token, r)

GetMyLatestReport ==
    \E token \in Presented :
        \E arg \in Sent(ReporterRoles, token, QueryIdInputs) :
            \E r \in get_my_latest_report(token, arg) :
                Respond("get_my_latest_report", token, r)

DashboardSummary ==
    \E token \in Presented :
        \E r \in dashboard_summary(token) : Respond("dashboard_summary", token, r)

DashboardHistory ==
    \E token \in Presented :
        \E arg \in Sent(MonitorRoles, token, QueryIdInputs \X QueryDaysInputs) :
            Respond("dashboard_history", token, dashboard_history(token, arg[1], arg[2]))

\* time passes between requests
Tick ==
    /\ now < MaxClock
    /\ now' = now + 1
    /\ UNCHANGED <<dbvars, revoked_tokens, tokens, resp, inflight, call>>

-----------------------------------------------------------------------------
(* Spec: the requests that write to the tables, one at a time, with every    *)
(* payload of the input sets.                                                *)

Register == RegisterOf(RegisterPayloads)
Login == LoginOf(LoginPayloads)
CreateFacility == CreateFacilityOf(FacilityPayloads)
CreateUser == CreateUserOf(UserPayloads)
DeleteFacility == DeleteFacilityOf(PathIds)
CreateReport == CreateReportOf(ReportPayloads)

Next ==
    \/ Register
    \/ Login
    \/ CreateFacility
    \/ CreateUser
    \/ DeleteFacility
    \/ CreateReport

Spec == Init /\ [][Next]_vars

-----------------------------------------------------------------------------
(* SpecRoutes: every route, one request at a time, logout included, with a   *)
(* few payloads per route.                                                   *)

RouteRegisterPayloads ==
    {RegisterPayload(StrV(e_lower), StrV(pw_good), r, None) :
        r \in {StrV(s_reporter), StrV(s_monitor), StrV(s_Admin)}}

RouteLoginPayloads ==
    {[email |-> StrV(e_admin), password |-> StrV(pw_admin)],
     [email |-> StrV(e_lower), password |-> StrV(pw_good)],
     [email |-> StrV(e_lower), password |-> StrV(pw_other)]}

RouteFacilityPayloads == {[name |-> StrV(n_alpha), country |-> StrV(c_kenya), city |-> None]}

RouteUserPayloads ==
    {UserPayload(StrV(e_lower), StrV(pw_good), None, StrV(s_reporter), IntV(1))}

RouteReportPayloads == {ReportPayload(IntV(1), IntV(0), IntV(2), IntV(10))}

RoutesRegister == RegisterOf(RouteRegisterPayloads)
RoutesLogin == LoginOf(RouteLoginPayloads)
RoutesCreateFacility == CreateFacilityOf(RouteFacilityPayloads)
RoutesCreateUser == CreateUserOf(RouteUserPayloads)
RoutesDeleteFacility == DeleteFacilityOf({1})
RoutesCreateReport == CreateReportOf(RouteReportPayloads)

NextRoutes ==
    \/ RoutesRegister
    \/ RoutesLogin
    \/ Logout
    \/ ListUsers
    \/ RoutesCreateFacility
    \/ ListFacilities
    \/ RoutesCreateUser
    \/ RoutesDeleteFacility
    \/ RoutesCreateReport
    \/ GetMyLatestReport
    \/ DashboardSummary
    \/ DashboardHistory

SpecRoutes == Init /\ [][NextRoutes]_vars

-----------------------------------------------------------------------------
(* SpecConc: two workers serve requests at the same time.  A handler that     *)
(* writes runs in two steps, as the database sees it: Begin is the handler up *)
(* to its db.session.commit() (its reads and checks), Finish is the commit    *)
(* and the response.  A request that is answered before it writes is answered *)
(* in its Begin step.                                                         *)

MaxRaceUsers == 3
MaxRaceFacilities == 2
MaxRaceReports == 2
MaxRaceTokens == 3

RaceRegisterPayloads ==
    {RegisterPayload(e, StrV(pw_good), StrV(s_monitor), None) :
        e \in {StrV(e_lower), StrV(e_mixed)}}

RaceLoginPayloads == {[email |-> StrV(e_admin), password |-> StrV(pw_admin)]}

RaceFacilityPayloads ==
    {[name |-> StrV(n), country |-> None, city |-> None] : n \in {n_alpha, n_alpha_padded}}

RaceReportPayloads ==
    {ReportPayload(IntV(1), IntV(0), IntV(2), IntV(10)),
     ReportPayload(IntV(1), StrV(<<"5">>), IntV(5), IntV(5))}

NoRow == [id |-> 0]

\* the request a worker is serving, or served last: `fresh` tells whether the
\* key of the row (e-mail, facility name, facility of the report) was free when
\* the handler read the tables
Serving(op, row, fresh) == [pc |-> "pending", op |-> op, row |-> row, fresh |-> fresh]
Answered(op, row, fresh, status) ==
    [pc |-> "answered", op |-> op, row |-> row, fresh |-> fresh, status |-> status]

Free(w) == inflight[w].pc # "pending"

\* a worker's Begin step: it changes no table
Begin(w, op, p, fresh) ==
    /\ Free(w)
    /\ inflight' = [inflight EXCEPT ![w] =
           IF p.pending THEN Serving(op, p.row, fresh)
           ELSE Answered(op, NoRow, FALSE, p.reply.status)]
    /\ UNCHANGED <<dbvars, revoked_tokens, tokens, now, resp, call>>

\* a worker's Finish step: the commit and the response
Finish(w, op, r) ==
    /\ inflight[w].pc = "pending"
    /\ inflight[w].op = op
    /\ r.nextUserId <= MaxRaceUsers + 1
    /\ r.nextFacilityId <= MaxRaceFacilities + 1
    /\ r.nextReportId <= MaxRaceReports + 1
    /\ Cardinality(r.tokens) <= MaxRaceTokens
    /\ users' = r.users
    /\ facilities' = r.facilities
    /\ reports' = r.reports
    /\ nextUserId' = r.nextUserId
    /\ nextFacilityId' = r.nextFacilityId
    /\ nextReportId' = r.nextReportId
    /\ revoked_tokens' = r.revoked_tokens
    /\ tokens' = r.tokens
    /\ inflight' = [inflight EXCEPT ![w] =
           Answered(op, inflight[w].row, inflight[w].fresh, r.status)]
    /\ UNCHANGED <<now, resp, call>>

BeginRegister(w) ==
    \E data \in RaceRegisterPayloads :
        LET p == register_prepare(data)
        IN  Begin(w, "register", p, p.pending /\ ~email_taken(p.row.email))

FinishRegister(w) ==
    /\ inflight[w].pc = "pending"
    /\ inflight[w].op = "register"
    /\ Finish(w, "register", register_commit(inflight[w].row))

BeginCreateFacility(w) ==
    \E token \in Presented : \E data \in RaceFacilityPayloads :
        LET guarded == role_guard(AdminRoles, token, Reply(0, "ok", <<>>))
            p == IF guarded.status # 0 THEN Done(guarded) ELSE create_facility_prepare(data)
        IN  Begin(w, "create_facility", p, p.pending)

FinishCreateFacility(w) ==
    /\ inflight[w].pc = "pending"
    /\ inflight[w].op = "create_facility"
    /\ Finish(w, "create_facility", create_facility_commit(inflight[w].row))

BeginCreateReport(w) ==
    \E token \in Presented : \E data \in RaceReportPayloads :
        LET guarded == role_guard(ReporterRoles, token, Reply(0, "ok", <<>>))
        IN  \E p \in IF guarded.status # 0 THEN {Done(guarded)}
                     ELSE create_report_prepare(token, data) :
                Begin(w, "create_report", p, p.pending /\ p.row.report_id = 0)

FinishCreateReport(w) ==
    /\ inflight[w].pc = "pending"
    /\ inflight[w].op = "create_report"
    /\ Finish(w, "create_report", create_report_commit(inflight[w].row))

\* login writes no table: it is served in one step
RaceLogin ==
    /\ \E data \in RaceLoginPayloads :
           LET r == login(data)
           IN  /\ Cardinality(r.tokens) <= MaxRaceTokens
               /\ tokens' = r.tokens
               /\ resp' = [op |-> "login", jti |-> 0, status |-> r.status]
    /\ UNCHANGED <<dbvars, revoked_tokens, now, inflight, call>>

NextConc ==
    \/ RaceLogin
    \/ \E w \in Workers : BeginRegister(w)
    \/ \E w \in Workers : FinishRegister(w)
    \/ \E w \in Workers : BeginCreateFacility(w)
    \/ \E w \in Workers : FinishCreateFacility(w)
    \/ \E w \in Workers : BeginCreateReport(w)
    \/ \E w \in Workers : FinishCreateReport(w)

SpecConc == Init /\ [][NextConc]_vars

-----------------------------------------------------------------------------
(* SpecSubjects: the guarded routes when the tokens in circulation are any    *)
(* validly signed tokens (signed with the app's key, whatever put the subject *)
(* into them), one request at a time.                                         *)

\* subjects that name an identity: the dict itself, or its JSON text
StructuredSubjects ==
    {DictV([id |-> IntV(1), role |-> StrV(s_admin), facility_id |-> None])}

SerializedSubjects ==
    {user_identity_lookup(DictV([id |-> IntV(1), role |-> StrV(s_admin), facility_id |-> None])),
     user_identity_lookup(DictV([id |-> IntV(2), role |-> StrV(s_monitor), facility_id |-> None]))}

\* subjects that name none: the texts `{`, `5`, `null`, `"x"`, `[]`, the empty
\* string, and null
MalformedSubjects ==
    {StrV(<<Punct("{")>>),
     StrV(<<Lit(IntV(5))>>),
     StrV(<<Lit(None)>>),
     StrV(<<Lit(StrV(<<"x">>))>>),
     StrV(<<Punct("["), Punct("]")>>),
     StrV(<<>>),
     None}

SubjectInputs == StructuredSubjects \cup SerializedSubjects \cup MalformedSubjects

\* a validly signed token with one of the subjects comes into circulation
MintToken ==
    /\ Cardinality(tokens) < MaxTokens
    /\ \E sub \in SubjectInputs :
           /\ tokens' = tokens \cup {[jti |-> NextJti, sub |-> sub]}
           /\ resp' = [op |-> "mint", jti |-> NextJti, status |-> 0]
    /\ UNCHANGED <<dbvars, revoked_tokens, now, inflight, call>>

NextSubjects ==
    \/ MintToken
    \/ ListUsers
    \/ RoutesCreateFacility
    \/ ListFacilities
    \/ RoutesCreateUser
    \/ RoutesDeleteFacility
    \/ RoutesCreateReport
    \/ GetMyLatestReport
    \/ DashboardSummary
    \/ DashboardHistory

SpecSubjects == Init /\ [][NextSubjects]_vars

-----------------------------------------------------------------------------
(* SpecReports: reports written and read back, one request at a time, while   *)
(* time passes between requests.                                              *)

ReadReportPayloads ==
    {ReportPayload(IntV(1), IntV(0), IntV(2), IntV(10)),
     ReportPayload(IntV(1), StrV(<<"5">>), IntV(5), IntV(5)),
     ReportPayload(IntV(1), IntV(0), IntV(2), IntV(10001)),
     ReportPayload(IntV(1), None, IntV(2), IntV(10)),
     ReportPayload(IntV(1), IntV(0 - 1), IntV(2), IntV(10)),
     ReportPayload(IntV(1), IntV(0), StrV(<<"x">>), IntV(10)),
     ReportPayload(IntV(1), FloatV(0 - 1), IntV(2), IntV(10)),
     ReportPayload(IntV(1), IntV(0), FloatV(20001), IntV(10)),
     ReportPayload(IntV(1), IntV(0), IntV(2), NaN),
     ReportPayload(IntV(1), IntV(0), IntV(2), Infinity)}

ReportsRegister == RegisterOf(RouteRegisterPayloads)
ReportsLogin == LoginOf(RaceLoginPayloads)
ReportsCreateFacility == CreateFacilityOf(RouteFacilityPayloads)
ReportsCreateUser == CreateUserOf(RouteUserPayloads)
ReportsCreateReport == CreateReportOf(ReadReportPayloads)

NextReports ==
    \/ ReportsRegister
    \/ ReportsLogin
    \/ ReportsCreateFacility
    \/ ReportsCreateUser
    \/ ReportsCreateReport
    \/ GetMyLatestReport
    \/ DashboardSummary
    \/ Tick

SpecReports == Init /\ [][NextReports]_vars

-----------------------------------------------------------------------------
(* SpecSanitize: sanitize_integer on its own, applied to one value and one    *)
(* pair of bounds.                                                            *)

MaxCount == 10000

IntegerValues ==
    {None, IntV(0 - 1), IntV(0), IntV(1), IntV(5), IntV(6), IntV(MaxCount),
     IntV(MaxCount + 1), StrV(<<"5">>), StrV(<<"-", "1">>), StrV(<<" ", "7">>),
     StrV(<<"x">>), StrV(<<" ">>), StrV(<<>>), FloatV(0 - 1), FloatV(11),
     FloatV(2 * MaxCount + 1), NaN, Infinity}

MinBounds == {None, IntV(0), IntV(1)}
MaxBounds == {None, IntV(5), IntV(MaxCount)}

Called(value, min_val, max_val) ==
    [fn |-> "sanitize_integer", value |-> value, min_val |-> min_val,
     max_val |-> max_val, returned |-> FALSE, out |-> None]

InitSanitize ==
    /\ Started
    /\ call \in {Called(value, min_val, max_val) :
                    value \in IntegerValues, min_val \in MinBounds, max_val \in MaxBounds}

\* the call runs to its end: `out` is what it returned or what it raised
SanitizeInteger ==
    /\ ~call.returned
    /\ call' = [call EXCEPT !.returned = TRUE,
                            !.out = sanitize_integer(call.value, call.min_val, call.max_val)]
    /\ UNCHANGED <<dbvars, revoked_tokens, tokens, now, resp, inflight>>

NextSanitize == SanitizeInteger

SpecSanitize == InitSanitize /\ [][NextSanitize]_vars

-----------------------------------------------------------------------------
(* SpecLatest: submits that overlap while time passes, and the dashboard read *)
(* between them.                                                              *)

LatestCreateFacility == CreateFacilityOf(RouteFacilityPayloads)

NextLatest ==
    \/ RaceLogin
    \/ LatestCreateFacility
    \/ \E w \in Workers : BeginCreateReport(w)
    \/ \E w \in Workers : FinishCreateReport(w)
    \/ Tick
    \/ DashboardSummary

SpecLatest == Init /\ [][NextLatest]_vars

-----------------------------------------------------------------------------
(* Properties.  A property of a handler is stated over the handler's         *)
(* operator: in every reachable state, for every token that was issued and   *)
(* every payload of the input sets.                                          *)

Answer(r) == <<r.status, r.key, r.msgs>>

TablesUnchanged(r) ==
    /\ r.users = users
    /\ r.facilities = facilities
    /\ r.reports = reports
    /\ r.nextUserId = nextUserId
    /\ r.nextFacilityId = nextFacilityId
    /\ r.nextReportId = nextReportId

StateUnchanged(r) ==
    /\ TablesUnchanged(r)
    /\ r.revoked_tokens = revoked_tokens
    /\ r.tokens = tokens

\* the tokens a caller can present and the guard accepts as authentic
ValidTokens == {token \in tokens : token.jti \notin revoked_tokens}

ClaimedRole(token) == dict_get(get_identity_dict(token).v, "role")
ClaimedFacility(token) == dict_get(get_identity_dict(token).v, "facility_id")

\* the facility a report payload is for, and whether the payload passes validation
TargetFacility(data) == sanitize_integer(data.facility_id, IntV(1), None)
ValidReport(data) ==
    /\ ~validate_report_payload_raises(data)
    /\ validate_report_payload(data) = <<>>
    /\ TargetFacility(data) # None

\* the row `data` asks for is stored in `rows` for its facility
Stored(rows, data) ==
    \E n \in rows :
        /\ n.facility_id = TargetFacility(data).v
        /\ IntV(n.icu_beds_available) = sanitize_integer(data.icu_beds_available, IntV(0), IntV(10000))
        /\ IntV(n.ventilators_available) = sanitize_integer(data.ventilators_available, IntV(0), IntV(10000))
        /\ IntV(n.staff_on_duty) = sanitize_integer(data.staff_on_duty, IntV(0), IntV(10000))

\* a reporter's submit that is not for the facility of their token
NotOwnFacility(token, data) ==
    /\ ClaimedRole(token) = StrV(s_reporter)
    /\ \/ ClaimedFacility(token) = None
       \/ ClaimedFacility(token) # TargetFacility(data)

\* what C2 says of an admin: no facility is forbidden, and a valid payload for a
\* stored facility is written
AdminMaySubmit(token, data, r) ==
    ClaimedRole(token) = StrV(s_admin) =>
        /\ r.status # 403
        /\ (ValidReport(data) /\ facility_exists(TargetFacility(data))) =>
               (r.status = 201 /\ Stored(r.reports, data))

\* C2 (as amended): a report submit by a reporter for a facility other than the
\* one in their token, or by a reporter whose token has no facility, is rejected
\* and changes no report row: with 403 when the payload passes validation, with
\* 400 when it does not (validation comes first) and 500 when validation itself
\* raises; an admin is never answered 403, and an admin's valid payload for a
\* stored facility is written (201).
C2_ReporterWritesOwnFacilityOnly ==
    \A token \in ValidTokens : \A data \in ReportPayloads :
        \A r \in create_report(token, data) :
            /\ NotOwnFacility(token, data) =>
                   /\ r.status = IF ValidReport(data) THEN 403
                                 ELSE IF validate_report_payload_raises(data) THEN 500
                                 ELSE 400
                   /\ TablesUnchanged(r)
            /\ AdminMaySubmit(token, data, r)

\* C2 as stated: every such submit by a reporter is answered 403.
C2_ForeignSubmitAlways403 ==
    \A token \in ValidTokens : \A data \in ReportPayloads :
        \A r \in create_report(token, data) :
            /\ (NotOwnFacility(token, data) /\ TargetFacility(data) # None) =>
                   (r.status = 403 /\ TablesUnchanged(r))
            /\ AdminMaySubmit(token, data, r)

\* a reporter linked to a facility has just been refused a submit with 403
C2_LinkedReporterRefused ==
    /\ resp.op = "create_report"
    /\ resp.status = 403
    /\ \E token \in ValidTokens :
           /\ token.jti = resp.jti
           /\ ClaimedRole(token) = StrV(s_reporter)
           /\ ClaimedFacility(token) # None

\* the rows stored for the facilities that have any
RowsOf(rows, facility_id) == {q \in rows : q.facility_id = facility_id}

\* C5: with submits handled one at a time, no facility ever has more than one
\* report row: an accepted submit overwrites the three counts of the facility's
\* row in place when there is one, and inserts a row only when there is none.
C5_OneReportRowPerFacility ==
    /\ \A q \in reports : Cardinality(RowsOf(reports, q.facility_id)) <= 1
    /\ \A token \in ValidTokens : \A data \in ReportPayloads :
           \A r \in create_report(token, data) :
               r.status = 201 =>
                   LET old == RowsOf(reports, TargetFacility(data).v)
                       new == RowsOf(r.reports, TargetFacility(data).v)
                   IN  /\ Stored(new, data)
                       /\ Cardinality(new) = 1
                       /\ r.reports \ new = reports \ old
                       /\ IF old = {}
                          THEN r.nextReportId = nextReportId + 1
                               /\ \A n \in new : n.id = nextReportId
                          ELSE r.nextReportId = nextReportId
                               /\ {n.id : n \in new} = {q.id : q \in old}

\* a submit has just been accepted and its facility has its single row
C5_SubmitAccepted ==
    /\ resp.op = "create_report"
    /\ resp.status = 201
    /\ reports # {}
    /\ \E token \in ValidTokens : \E data \in ReportPayloads :
           /\ ValidReport(data)
           /\ RowsOf(reports, TargetFacility(data).v) # {}
           /\ \E r \in create_report(token, data) :
                  r.status = 201 /\ r.nextReportId = nextReportId /\ r.reports # reports

\* C6: every user has a facility_id if and only if its role is reporter.
C6_FacilityIffReporter ==
    \A u \in users : (u.facility_id # None) <=> (u.role = s_reporter)

\* the role a register payload asks for (reporter when it names none)
RequestedRole(data) == lower(sanitize_string(py_or(data.role, StrV(s_reporter)), 50))

\* C7: a register for role reporter (named or by default) without facility_id,
\* and a register for role admin or monitor with a facility_id, are answered 400
\* and create no user.
C7_RegisterRejectsRoleFacilityMismatch ==
    \A data \in RegisterPayloads :
        (\/ RequestedRole(data) = s_reporter /\ data.facility_id = None
         \/ RequestedRole(data) \in {s_admin, s_monitor} /\ data.facility_id # None)
        => (register(data).status = 400 /\ StateUnchanged(register(data)))

\* the login payload names no stored user, or one whose password is another
NoMatch(data) ==
    \A u \in users :
        u.email = sanitize_email(data.email) =>
            (data.password.t # "str" \/ ~check_password(u, data.password.v))

GenericRejection == <<401, "error", <<"Invalid credentials.">>>>

\* C10 (as amended): the answer to a login that names no stored user and the
\* answer to a login that names a user with another password are the same, for
\* they depend on the payload alone: the 400 of the payload's validation errors
\* when it has any, else 401 with "Invalid credentials."; no token is issued.
C10_LoginRejectionSameAnswer ==
    \A data \in LoginPayloads :
        NoMatch(data) =>
            /\ Answer(login(data)) =
                   IF validate_user_payload(data, TRUE) = <<>> THEN GenericRejection
                   ELSE <<400, "errors", validate_user_payload(data, TRUE)>>
            /\ StateUnchanged(login(data))

\* C10 as stated: every such login is answered 401 with the generic message.
C10_LoginRejectionAlways401 ==
    \A data \in LoginPayloads :
        NoMatch(data) => Answer(login(data)) = GenericRejection

\* a login has just been answered 401 while a registered user and an unknown
\* e-mail were both there to be named
C10_LoginRefused ==
    /\ resp.op = "login"
    /\ resp.status = 401
    /\ \E data \in LoginPayloads : NoMatch(data) /\ email_taken(sanitize_email(data.email))
    /\ \E data \in LoginPayloads : ~email_taken(sanitize_email(data.email))

\* the role of the user a token was issued to (users are never deleted and
\* never change role)
HolderRole(token) ==
    LET holder == CHOOSE u \in users : IntV(u.id) = dict_get(get_identity_dict(token).v, "id")
    IN  holder.role

\* the guard's contract for one answer of a route guarded with `allowed`
Guarded(token, allowed, r) ==
    IF HolderRole(token) \in allowed THEN r.ran
    ELSE r.status = 403 /\ ~r.ran /\ StateUnchanged(r)

\* the answer to a request that presents a revoked token
Unauthenticated(r) == r.status = 401 /\ ~r.ran /\ StateUnchanged(r)

\* the statuses of a request refused, and what such a request must leave alone
ErrorStatuses == {400, 401, 403, 404, 409}

ErrorLeavesState(r) ==
    r.status \in ErrorStatuses =>
        /\ r.users = users
        /\ r.facilities = facilities
        /\ r.reports = reports
        /\ r.revoked_tokens = revoked_tokens

\* the predicates stated of an answer r of a route guarded with `allowed`
judge(what, token, allowed, r) ==
    CASE what = "guarded" -> Guarded(token, allowed, r)
      [] what = "kept" -> revoked_tokens \subseteq r.revoked_tokens
      [] what = "rejected" -> Unauthenticated(r)
      [] what = "frame" -> ErrorLeavesState(r)
      [] what = "subject" ->
             /\ r.ran \/ r.status = 403
             /\ token.sub \in MalformedSubjects => (r.status = 403 /\ ~r.ran)

\* one predicate over the answers of all nine guarded routes, each with the
\* role set the route is declared with
OnGuardedRoutes(what, token) ==
    /\ judge(what, token, {s_admin}, list_users(token))
    /\ \A data \in FacilityPayloads : judge(what, token, {s_admin}, create_facility(token, data))
    /\ judge(what, token, {s_admin}, list_facilities(token))
    /\ \A data \in UserPayloads : judge(what, token, {s_admin}, create_user(token, data))
    /\ \A facility_id \in PathIds : judge(what, token, {s_admin}, delete_facility(token, facility_id))
    /\ \A data \in ReportPayloads : \A r \in create_report(token, data) :
           judge(what, token, {s_reporter, s_admin}, r)
    /\ \A arg \in QueryIdInputs : \A r \in get_my_latest_report(token, arg) :
           judge(what, token, {s_reporter, s_admin}, r)
    /\ \A r \in dashboard_summary(token) : judge(what, token, {s_monitor, s_admin}, r)
    /\ \A arg \in QueryIdInputs : \A days \in QueryDaysInputs :
           judge(what, token, {s_monitor, s_admin}, dashboard_history(token, arg, days))

\* C1: on every guarded route, for every caller with a valid, unrevoked token,
\* the wrapped operation runs if and only if the caller's role is in the
\* route's role set; otherwise the answer is 403 and nothing changes.
C1_GuardRunsIffRoleAllowed ==
    \A token \in ValidTokens :
        OnGuardedRoutes("guarded", token)

\* a reporter or monitor has just been refused an admin-only route
C1_RoleRefused ==
    /\ resp.op = "create_facility"
    /\ resp.status = 403
    /\ \E token \in ValidTokens : token.jti = resp.jti /\ HolderRole(token) # s_admin

\* C3: a token used for logout is on the blocklist, no request ever takes a
\* token off the blocklist, and every request that presents a token of the
\* blocklist to an authenticated route is answered 401 without the handler
\* running.
C3_RevokedTokenRejectedForever ==
    /\ \A token \in ValidTokens :
           /\ logout(token).status = 200
           /\ token.jti \in logout(token).revoked_tokens
    /\ \A token \in Presented :
           /\ OnGuardedRoutes("kept", token)
           /\ revoked_tokens \subseteq logout(token).revoked_tokens
    /\ \A data \in RegisterPayloads : revoked_tokens \subseteq register(data).revoked_tokens
    /\ \A data \in LoginPayloads : revoked_tokens \subseteq login(data).revoked_tokens
    /\ \A token \in tokens :
           token.jti \in revoked_tokens =>
               /\ OnGuardedRoutes("rejected", token)
               /\ Unauthenticated(logout(token))

\* a request with a token of the blocklist has just been answered 401 by a
\* guarded route
C3_RevokedTokenRefused ==
    /\ resp.op = "dashboard_summary"
    /\ resp.status = 401
    /\ resp.jti \in revoked_tokens

\* the requests of a kind that reached their commit and were answered
Committed(w, op) ==
    /\ inflight[w].pc = "answered"
    /\ inflight[w].op = op
    /\ inflight[w].row # NoRow

\* two submits name the same facility and carry the same counts
SameSubmit(row1, row2) ==
    /\ row1.facility_id = row2.facility_id
    /\ row1.icu_beds_available = row2.icu_beds_available
    /\ row1.ventilators_available = row2.ventilators_available
    /\ row1.staff_on_duty = row2.staff_on_duty

\* C4: two submits with the same payload for the same facility, both accepted,
\* leave exactly one report row for the facility, with the submitted counts,
\* also when the two are handled at the same time.
C4_SameSubmitTwiceOneRow ==
    \A w1 \in Workers : \A w2 \in Workers \ {w1} :
        (/\ Committed(w1, "create_report") /\ inflight[w1].status = 201
         /\ Committed(w2, "create_report") /\ inflight[w2].status = 201
         /\ SameSubmit(inflight[w1].row, inflight[w2].row))
        => LET rows == RowsOf(reports, inflight[w1].row.facility_id)
           IN  /\ Cardinality(rows) = 1
               /\ \A n \in rows :
                      /\ n.icu_beds_available = inflight[w1].row.icu_beds_available
                      /\ n.ventilators_available = inflight[w1].row.ventilators_available
                      /\ n.staff_on_duty = inflight[w1].row.staff_on_duty

\* C8: whatever the interleaving, two registers with the same sanitized e-mail
\* that was free when both began end with exactly one user row of that e-mail,
\* one answered 201 and the other 409; a register (valid otherwise) for an
\* e-mail that is stored is answered 409 and changes nothing.
C8_RegisterSameEmailOnce ==
    /\ \A u1 \in users : \A u2 \in users : u1.email = u2.email => u1 = u2
    /\ \A w \in Workers :
           Committed(w, "register") =>
               /\ inflight[w].status \in {201, 409}
               /\ ~inflight[w].fresh => inflight[w].status = 409
               /\ inflight[w].status = 201 => email_taken(inflight[w].row.email)
    /\ \A w1 \in Workers : \A w2 \in Workers \ {w1} :
           (/\ Committed(w1, "register") /\ inflight[w1].fresh
            /\ Committed(w2, "register") /\ inflight[w2].fresh
            /\ inflight[w1].row.email = inflight[w2].row.email)
           => {inflight[w1].status, inflight[w2].status} = {201, 409}
    /\ \A w \in Workers :
           (inflight[w].pc = "pending" /\ inflight[w].op = "register"
            /\ email_taken(inflight[w].row.email))
           => /\ register_commit(inflight[w].row).status = 409
              /\ StateUnchanged(register_commit(inflight[w].row))
    /\ \A data \in RegisterPayloads :
           (register_prepare(data).pending /\ email_taken(sanitize_email(data.email)))
           => (register(data).status = 409 /\ StateUnchanged(register(data)))

\* two registers of one e-mail, begun while it was free, have both been answered
C8_BothRegistersAnswered ==
    /\ \A w \in Workers : Committed(w, "register") /\ inflight[w].fresh
    /\ inflight[1].row.email = inflight[2].row.email
    /\ inflight[1].status = 201
    /\ inflight[2].status = 409

\* C9: no two facilities have the same name, and every create for a name that
\* is taken when it commits is answered 409, never 201 or 500, also when two
\* creates are handled at the same time.
C9_FacilityNameTaken409 ==
    /\ \A f1 \in facilities : \A f2 \in facilities : f1.name = f2.name => f1 = f2
    /\ \A w \in Workers :
           Committed(w, "create_facility") =>
               /\ inflight[w].status \in {201, 409}
               /\ inflight[w].status = 201 => name_taken(inflight[w].row.name)
    /\ \A token \in ValidTokens : \A data \in FacilityPayloads :
           (/\ HolderRole(token) = s_admin
            /\ validate_facility_payload(data) = <<>>
            /\ name_taken(sanitize_string(data.name, 150)))
           => create_facility(token, data).status = 409

\* C11: a login whose payload has a non-empty email and a non-empty password
\* is answered 200 when the credentials are those of a stored user and 401
\* otherwise, never 400.
C11_LoginNever400 ==
    \A data \in LoginPayloads :
        (truthy(data.email) /\ truthy(data.password)) =>
            login(data).status = IF NoMatch(data) THEN 401 ELSE 200

\* C12: whatever the subject of a validly signed, unrevoked token, a guarded
\* route either runs its handler or answers 403, and a malformed subject (a
\* string that is not JSON, JSON that is not an object, empty or null) is
\* answered 403: never an unhandled error, never 500.
C12_MalformedSubjectForbidden ==
    \A token \in ValidTokens : OnGuardedRoutes("subject", token)

\* the rows of a facility with the greatest updated_at
LatestRows(rows, facility_id) ==
    {q \in RowsOf(rows, facility_id) :
        \A p \in RowsOf(rows, facility_id) : p.updated_at <= q.updated_at}

\* every dashboard summary a monitor or admin can be given shows facility_id
\* as critical
CriticalShown(facility_id) ==
    \A token \in ValidTokens : \A r \in dashboard_summary(token) :
        r.status = 200 => \E e \in r.data : e.facility_id = facility_id /\ e.critical

\* the step is a submit answered 201 whose payload has icu_beds_available = 0
AcceptedZeroIcu(data) ==
    /\ now' = now
    /\ resp'.op = "create_report"
    /\ resp'.status = 201
    /\ sanitize_integer(data.icu_beds_available, IntV(0), IntV(10000)) = IntV(0)
    /\ \E token \in tokens : \E r \in create_report(token, data) :
           token.jti = resp'.jti /\ r.status = 201 /\ r.reports = reports'

\* the entries of a dashboard summary: one per facility, critical exactly when
\* the facility has a report and the counts shown, those of its most recently
\* updated report, have icu_beds_available = 0
CriticalIffLatestIcuZero ==
    \A token \in ValidTokens : \A r \in dashboard_summary(token) :
        r.status = 200 =>
            /\ {e.facility_id : e \in r.data} = {f.id : f \in facilities}
            /\ \A e \in r.data :
                   /\ e.critical <=>
                          (RowsOf(reports, e.facility_id) # {}
                           /\ e.icu_beds_available = IntV(0))
                   /\ IF RowsOf(reports, e.facility_id) = {}
                      THEN e.icu_beds_available = None
                      ELSE \E q \in LatestRows(reports, e.facility_id) :
                               e.icu_beds_available = IntV(q.icu_beds_available)

C14_DeleteExistingAlways200 ==
    \A token \in ValidTokens : \A facility_id \in PathIds :
        LET r == delete_facility(token, facility_id) IN
        r.ran =>
            IF ~facility_exists(IntV(facility_id))
            THEN r.status = 404 /\ StateUnchanged(r)
            ELSE /\ r.status = 200
                 /\ ~\E f \in r.facilities : f.id = facility_id
                 /\ r.users = {IF u.facility_id = IntV(facility_id)
                               THEN [u EXCEPT !.facility_id = None] ELSE u : u \in users}

\* C15: on get-my-latest-report a caller whose role is admin or monitor must
\* supply the facility_id query parameter: without it the answer is 400, with
\* it the answer is 200 with the latest report or 404 when there is none; a
\* reporter with no linked facility is answered 403.
C15_AdminOrMonitorNamesFacility ==
    \A token \in ValidTokens : \A arg \in QueryIdInputs :
        \A r \in get_my_latest_report(token, arg) :
            /\ (ClaimedRole(token) \in {StrV(s_admin), StrV(s_monitor)} /\ arg = None)
                   => r.status = 400
            /\ (ClaimedRole(token) \in {StrV(s_admin), StrV(s_monitor)}
                    /\ arg \in {StrV(<<"1">>), StrV(<<"2">>)})
                   => \/ r.status = 404 /\ RowsOf(reports, py_int(arg).v) = {}
                      \/ /\ r.status = 200
                         /\ r.data \in LatestRows(reports, py_int(arg).v)
            /\ (ClaimedRole(token) = StrV(s_reporter) /\ ClaimedFacility(token) = None)
                   => r.status = 403

\* a count a report may not carry: missing, not a number, negative or above 10000
BadCount(value) ==
    CASE value.t = "none" -> TRUE
      [] value.t = "int" -> value.v < 0 \/ value.v > 10000
      [] value.t = "float" -> value.v < 0 \/ value.v > 2 * 10000
      [] value.t = "str" ->
            \/ py_int(value).t = "raise"
            \/ py_int(value).v < 0
            \/ py_int(value).v > 10000
      [] OTHER -> TRUE

\* C16: every stored report has its three counts in 0..10000, and a submit in
\* which any of the three is missing, non-numeric, negative or above 10000 is
\* answered 400 and writes nothing.
C16_BadCountsRejected400 ==
    /\ \A q \in reports :
           /\ q.icu_beds_available \in 0..10000
           /\ q.ventilators_available \in 0..10000
           /\ q.staff_on_duty \in 0..10000
    /\ \A token \in ValidTokens : \A data \in ReadReportPayloads :
           \A r \in create_report(token, data) :
               (/\ r.ran
                /\ \/ BadCount(data.icu_beds_available)
                   \/ BadCount(data.ventilators_available)
                   \/ BadCount(data.staff_on_duty))
                   => r.status = 400 /\ StateUnchanged(r)

\* what a guarded route reads from the token is the id, role and facility_id
\* of the user row
Carries(token, user) ==
    LET identity == get_identity_dict(token) IN
    /\ token.sub.t = "str"
    /\ identity.t = "dict"
    /\ DOMAIN identity.v = {"id", "role", "facility_id"}
    /\ dict_get(identity.v, "id") = IntV(user.id)
    /\ dict_get(identity.v, "role") = StrV(user.role)
    /\ dict_get(identity.v, "facility_id") = user.facility_id

\* C17: the token of a successful register or login carries the identity
\* {id, role, facility_id} of the stored user, and serializing that identity
\* into the token subject and deserializing it on a guarded route yields the
\* same three values; registering a reporter for the existing facility 1 is
\* answered 201 with a token that decodes to {id, role: reporter, facility_id: 1}.
C17_TokenCarriesStoredIdentity ==
    /\ \A data \in RegisterPayloads :
           LET r == register(data) IN
           r.status = 201 =>
               /\ r.data \in r.tokens \ tokens
               /\ \E user \in r.users \ users :
                      /\ user.email = sanitize_email(data.email)
                      /\ Carries(r.data, user)
    /\ \A data \in LoginPayloads :
           LET r == login(data) IN
           r.status = 200 =>
               /\ r.data \in r.tokens \ tokens
               /\ \E user \in users :
                      /\ user.email = sanitize_email(data.email)
                      /\ Carries(r.data, user)
    /\ \A user \in users :
           json_loads(json_dumps(IdentityKeys, user_identity(user).v)) = user_identity(user)
    /\ LET r == register(RegisterPayload(StrV(e_lower), StrV(pw_good),
                                         StrV(s_reporter), IntV(1)))
       IN  (facility_exists(IntV(1)) /\ ~email_taken(e_lower)) =>
               /\ r.status = 201
               /\ get_identity_dict(r.data) =
                      DictV([id |-> IntV(nextUserId), role |-> StrV(s_reporter),
                             facility_id |-> IntV(1)])

\* a reporter was registered for facility 1 and holds a token that says so
C17_ReporterTokenIssued ==
    /\ resp.op = "register"
    /\ resp.status = 201
    /\ \E token \in tokens : \E user \in users :
           /\ user.role = s_reporter
           /\ user.facility_id = IntV(1)
           /\ Carries(token, user)

\* the value is an integer, or text that denotes one
IsInteger(value) ==
    \/ value.t = "int"
    \/ value.t = "str" /\ py_int(value).t = "int"

WithinMinMax(n, min_val, max_val) ==
    /\ min_val # None => min_val.v <= n
    /\ max_val # None => n <= max_val.v

\* C18: sanitize_integer(v, min, max), each bound possibly absent, returns v
\* unchanged if and only if v is an integer with min <= v <= max; in every
\* other case (v absent, not numeric, or out of range) it returns None, the
\* invalid marker, and does not raise.
C18_SanitizeIntegerNeverRaises ==
    call.returned =>
        call.out =
            IF IsInteger(call.value)
               /\ WithinMinMax(py_int(call.value).v, call.min_val, call.max_val)
            THEN py_int(call.value)
            ELSE None

\* the callers whose get-my-latest-report reads facility_id: an admin naming it
\* in the query, and a reporter linked to it
ReadersOf(facility_id) ==
    {token \in ValidTokens :
        \/ ClaimedRole(token) = StrV(s_admin)
        \/ ClaimedRole(token) = StrV(s_reporter) /\ ClaimedFacility(token) = IntV(facility_id)}

\* every get-my-latest-report for facility_id returns exactly the counts of row
ReadsBack(facility_id, row) ==
    \A token \in ReadersOf(facility_id) :
        \A r \in get_my_latest_report(token, StrV(nat_digits(facility_id))) :
            /\ r.status = 200
            /\ r.data.facility_id = facility_id
            /\ r.data.icu_beds_available = row.icu_beds_available
            /\ r.data.ventilators_available = row.ventilators_available
            /\ r.data.staff_on_duty = row.staff_on_duty

\* worker w commits a submit and answers 201 in this step
SubmitCommits(w) ==
    /\ inflight[w].pc = "pending"
    /\ inflight[w].op = "create_report"
    /\ inflight'[w].pc = "answered"
    /\ inflight'[w].status = 201

\* C19: after a successful submit for facility f with counts (i, v, s),
\* get-my-latest-report for f returns exactly (i, v, s) until the next
\* successful submit for f: whatever submits have completed, the counts read
\* are those of the submit that committed last; before any submit for f the
\* answer is 404.
C19_LastWriterWins ==
    /\ [](\A f \in 1..MaxRaceFacilities :
              RowsOf(reports, f) = {} =>
                  \A token \in ReadersOf(f) :
                      \A r \in get_my_latest_report(token, StrV(nat_digits(f))) :
                          r.status = 404)
    /\ [][\A w \in Workers :
              SubmitCommits(w) =>
                  ReadsBack(inflight[w].row.facility_id, inflight[w].row)']_vars
    /\ [][reports' # reports => \E w \in Workers : SubmitCommits(w)]_vars

\* a payload that validation is to refuse: facility_id is not a positive
\* integer, or one of the counts is bad
InvalidPayload(data) ==
    \/ ~IsInteger(data.facility_id)
    \/ py_int(data.facility_id).v < 1
    \/ BadCount(data.icu_beds_available)
    \/ BadCount(data.ventilators_available)
    \/ BadCount(data.staff_on_duty)

\* C20: submit-report checks the payload (400), then that a reporter submits
\* for their own facility (403), then that the facility exists (404): an
\* invalid payload is answered 400 whatever the caller's role or facility, a
\* reporter's valid payload for a facility other than their own is answered
\* 403 whether or not the facility exists, and 404 is answered only to a
\* caller authorized for the facility named.
C20_SubmitCheckOrder ==
    \A token \in ValidTokens : \A data \in ReportPayloads :
        \A r \in create_report(token, data) :
            r.ran =>
                /\ InvalidPayload(data) => r.status = 400
                /\ (~InvalidPayload(data) /\ NotOwnFacility(token, data)) => r.status = 403
                /\ r.status = 404 =>
                       /\ ~InvalidPayload(data)
                       /\ ~NotOwnFacility(token, data)
                       /\ ~facility_exists(TargetFacility(data))

\* C21: the dashboard summary has exactly one entry per existing facility; the
\* three resource fields of an entry are those of a report of the facility
\* with the greatest updated_at, and all three are null exactly when the
\* facility has no report, also when a facility has more than one report row.
C21_SummaryShowsLatestReport ==
    \A token \in ValidTokens : \A r \in dashboard_summary(token) :
        r.status = 200 =>
            /\ Cardinality(r.data) = Cardinality(facilities)
            /\ {e.facility_id : e \in r.data} = {f.id : f \in facilities}
            /\ \A e \in r.data :
                   IF RowsOf(reports, e.facility_id) = {}
                   THEN /\ e.icu_beds_available = None
                        /\ e.ventilators_available = None
                        /\ e.staff_on_duty = None
                   ELSE \E q \in LatestRows(reports, e.facility_id) :
                            /\ e.icu_beds_available = IntV(q.icu_beds_available)
                            /\ e.ventilators_available = IntV(q.ventilators_available)
                            /\ e.staff_on_duty = IntV(q.staff_on_duty)

\* a summary has just been served while a facility has two report rows, one
\* updated later than the other
C21_SummaryOverTwoRows ==
    /\ resp.op = "dashboard_summary"
    /\ resp.status = 200
    /\ \E q1 \in reports : \E q2 \in reports :
           /\ q1.facility_id = q2.facility_id
           /\ q1.updated_at < q2.updated_at
           /\ facility_exists(IntV(q1.facility_id))

\* C22: every request answered 400, 401, 403, 404 or 409, on the register,
\* login and logout routes and on the admin, reporter and monitor routes,
\* leaves the users, the facilities, the reports and the revocation set
\* exactly as they were before the request.
C22_ErrorsChangeNothing ==
    /\ \A data \in RegisterPayloads : ErrorLeavesState(register(data))
    /\ \A data \in LoginPayloads : ErrorLeavesState(login(data))
    /\ \A token \in Presented :
           /\ ErrorLeavesState(logout(token))
           /\ OnGuardedRoutes("frame", token)

\* a request has just been refused although tables and blocklist are not empty
C22_RefusedWithStateToLose ==
    /\ resp.status \in ErrorStatuses
    /\ resp.op \in {"create_user", "create_report", "delete_facility", "register"}
    /\ facilities # {}
    /\ reports # {}
    /\ revoked_tokens # {}

\* C23: in every reachable state the facility_id of every report and every
\* non-null facility_id of a user is the id of a facility that exists now: no
\* sequence of create, submit and delete-facility requests leaves a report or
\* a user pointing at a deleted facility.
C23_NoDanglingFacility ==
    /\ \A q \in reports : facility_exists(IntV(q.facility_id))
    /\ \A u \in users : u.facility_id # None => facility_exists(u.facility_id)

\* a delete-facility has just been tried on a facility that has a report
C23_DeleteTriedWithReport ==
    /\ resp.op = "delete_facility"
    /\ resp.status = 500
    /\ reports # {}

\* C24: logout adds only the jti of the token presented to the revocation set
\* and removes none: every other token that was accepted before the logout,
\* of the same user or of another, is accepted after it, a token of a later
\* login is accepted too, and users, facilities and reports are unchanged.
C24_LogoutRevokesOnlyItsToken ==
    /\ \A token \in Presented :
           LET r == logout(token) IN
           /\ revoked_tokens \subseteq r.revoked_tokens
           /\ r.revoked_tokens \subseteq revoked_tokens \cup {token.jti}
           /\ TablesUnchanged(r)
           /\ r.tokens = tokens
           /\ \A other \in ValidTokens \ {token} : other.jti \notin r.revoked_tokens
           /\ token \in ValidTokens => (r.status = 200 /\ token.jti \in r.revoked_tokens)
    /\ \A data \in LoginPayloads :
           login(data).status = 200 => login(data).data.jti \notin revoked_tokens

\* a logout has just been answered 200 while the same user holds another token
\* that is still accepted
C24_OtherSessionSurvives ==
    /\ resp.op = "logout"
    /\ resp.status = 200
    /\ \E t1 \in tokens : \E t2 \in ValidTokens :
           /\ t1.jti = resp.jti
           /\ t1.jti \in revoked_tokens
           /\ t2.sub = t1.sub

\* the step is a create-user answered 201 for the payload data
UserCreated(data) ==
    /\ resp'.op = "create_user"
    /\ resp'.status = 201
    /\ \E token \in tokens :
           /\ token.jti = resp'.jti
           /\ create_user(token, data).status = 201
           /\ create_user(token, data).users = users'

\* a login with the e-mail and the password of the payload is answered 200
\* with a token that carries the role and the facility of the user of that
\* e-mail
CanLogIn(data) ==
    LET r == login([email |-> data.email,
                    password |-> py_or(data.password, data.temporary_password)])
    IN  /\ r.status = 200
        /\ \E user \in users :
               /\ user.email = sanitize_email(data.email)
               /\ Carries(r.data, user)

\* C25: every user created by the admin's create-user (201) with e-mail e and
\* password p can log in afterwards: a login with the same e and p is answered
\* 200 with a token that carries the user's role and facility_id.
C25_CreatedUserCanLogIn ==
    [][\A data \in UserPayloads : UserCreated(data) => CanLogIn(data)']_vars

====
